---- MODULE Spec2Model ----
(***************************************************************************)
(* The task state engine of the todo page (src/app/page.tsx).              *)
(*                                                                         *)
(* Two variants of Home() are modelled:                                    *)
(*   - the persisted variant (page.tsx 440-961): the tasks live in the     *)
(*     InstantDB store, every handler issues db.transact, the views are    *)
(*     sorted copies of the query result.  Specification: Spec.            *)
(*   - the local variant (page.tsx 1-439): the tasks live in a useState    *)
(*     array, ids are Date.now().toString().  Specification: SpecLocal.    *)
(*                                                                         *)
(* A title is a sequence of one-character strings, so that trim() is       *)
(* computed and not assumed.  The text typed in the new-task field and in  *)
(* an edit field is the input of addTask / updateTaskTitle.                *)
(***************************************************************************)
EXTENDS Integers, Sequences, FiniteSets, TLC

\* ------------------------------------------------------------------ bounds
MaxTasks == 3   \* addTask is explored while fewer tasks than this exist
MaxClock == 1   \* Date.now() ranges over 0..MaxClock
MaxSteps == 2   \* events other than undo explored after the mount (the log bounds undo)
MaxStepsLocal == 4   \* the same for the local variant, which starts with no task
MaxWheels == 3   \* wheel events followed on one TaskItem
\* ids that exist in one run (those of the first tasks included)
MaxIds == MaxTasks + 1
\* an id no task ever has
UnknownId == MaxIds + 1

VARIABLES
  tasks,      \* persisted: the query result data.tasks; local: the tasks state
  undoStack,  \* the undoStack state (Action records, last = most recent)
  now,        \* the value Date.now() returns
  idCounter,  \* the last id that id() has generated (ids are 1, 2, ...)
  steps,      \* how many events other than undo have changed the state
  base,       \* the run of handlers since the log was last empty
  user,       \* db.useAuth(): "loading" (authLoading), "none" (no user), "in" (a user)
  item,       \* one TaskItem: its swipe state and its timers
  edit        \* editingId of Home, and the edit field of that TaskItem

vars == <<tasks, undoStack, now, idCounter, steps, base, user, item, edit>>

\* the TaskItem of the task id as it is mounted: useState(false), useState(0),
\* useRef(0), useRef().  swipeTimeout is the id of the timer the ref holds (0:
\* none), pending the timers of the item that are set and have neither fired
\* nor been cleared, cleared those clearTimeout has stopped.  dragging says
\* that a pointer drag of the row is under way, released is info.offset.x of
\* the last release.
Mounted(id) ==
  [ id |-> id, mounted |-> TRUE, isDraggingToDelete |-> FALSE, swipeOffset |-> 0,
    swipeAccumulator |-> 0, swipeTimeout |-> 0, pending |-> {}, cleared |-> {},
    dragging |-> FALSE, released |-> 0 ]

\* no TaskItem is followed
NoItem == [ Mounted(0) EXCEPT !.mounted = FALSE ]

\* useState<string | null>(null): no task is edited
Null == 0

\* the edit state when the TaskItem of a task titled title is mounted:
\* editingId, and the item's useState(task.title); typed says whether onChange
\* has run since the field was opened
Editing(title) == [ editingId |-> Null, editValue |-> title, typed |-> FALSE ]

\* no edit field is followed
NoEdit == Editing(<<>>)

\* ------------------------------------------------------------------ values
Titles == { <<>>, <<" ">>, <<"a">>, <<"b", " ">> }

IsSpace(c) == c = " "

RECURSIVE TrimStart(_)
TrimStart(s) ==
  IF s = <<>> THEN <<>>
  ELSE IF IsSpace(Head(s)) THEN TrimStart(Tail(s)) ELSE s

RECURSIVE TrimEnd(_)
TrimEnd(s) ==
  IF s = <<>> THEN <<>>
  ELSE IF IsSpace(s[Len(s)]) THEN TrimEnd(SubSeq(s, 1, Len(s) - 1)) ELSE s

\* String.prototype.trim
Trim(s) == TrimEnd(TrimStart(s))

\* a JavaScript string is truthy when it is not empty
Truthy(s) == s # <<>>


\* ------------------------------------------------------------------ store
\* position (1-based) of the task with this id, 0 when there is none
IndexOf(ts, id) ==
  IF \E i \in 1..Len(ts) : ts[i].id = id
  THEN CHOOSE i \in 1..Len(ts) : ts[i].id = id /\ \A j \in 1..(i - 1) : ts[j].id # id
  ELSE 0

Field(upd, f, old) == IF f \in DOMAIN upd THEN upd[f] ELSE old

Attributes == { "title", "isCompleted", "sortOrder", "createdAt", "updatedAt" }

\* the attributes of upd are written over those of old; "missing" names the
\* attributes the entity does not have (they read as undefined)
Merge(old, upd) ==
  [ id          |-> old.id,
    title       |-> Field(upd, "title", old.title),
    isCompleted |-> Field(upd, "isCompleted", old.isCompleted),
    sortOrder   |-> Field(upd, "sortOrder", old.sortOrder),
    createdAt   |-> Field(upd, "createdAt", old.createdAt),
    updatedAt   |-> Field(upd, "updatedAt", old.updatedAt),
    missing     |-> old.missing \ DOMAIN upd ]

\* an entity with no attribute yet: !undefined is true, (undefined || 0) is 0
Blank(id) ==
  [ id |-> id, title |-> <<>>, isCompleted |-> FALSE, sortOrder |-> 0,
    createdAt |-> 0, updatedAt |-> 0, missing |-> Attributes ]

\* db.transact(db.tx.tasks[id].update(upd)): the attributes named are written
\* on the entity with this id; an entity that does not exist is created,
\* after the existing ones in the query result.
TxUpdate(ts, id, upd) ==
  LET i == IndexOf(ts, id) IN
  IF i = 0 THEN Append(ts, Merge(Blank(id), upd))
  ELSE [ ts EXCEPT ![i] = Merge(ts[i], upd) ]

\* db.transact(db.tx.tasks[id].delete())
TxDelete(ts, id) == SelectSeq(ts, LAMBDA t : t.id # id)

\* ------------------------------------------------------------------ views
\* Array.prototype.sort is stable: elements with equal keys keep their order
StableSortByKey(s, key) ==
  LET n == Len(s)
      rank(i) == Cardinality({ j \in 1..n : key[j] < key[i] \/ (key[j] = key[i] /\ j < i) }) + 1
  IN  [ p \in 1..n |-> s[CHOOSE i \in 1..n : rank(i) = p] ]

activeTasksOf(ts) ==
  LET f == SelectSeq(ts, LAMBDA t : ~t.isCompleted)
  IN  StableSortByKey(f, [ i \in 1..Len(f) |-> f[i].sortOrder ])

completedTasksOf(ts) ==
  LET f == SelectSeq(ts, LAMBDA t : t.isCompleted)
  IN  StableSortByKey(f, [ i \in 1..Len(f) |-> 0 - f[i].updatedAt ])

activeTasks == activeTasksOf(tasks)
completedTasks == completedTasksOf(tasks)

IdsOf(s) == [ i \in 1..Len(s) |-> s[i].id ]
IdSet(ts) == { ts[i].id : i \in 1..Len(ts) }

\* ------------------------------------------------------------------ persisted variant
\* Each handler is an operator from the state it reads (ts = tasks, us =
\* undoStack), its input and the clock t to the state it leaves:
\* [tasks, undoStack].  db.transact is applied at once (optimistic update).

Result(ts, us) == [ tasks |-> ts, undoStack |-> us ]

\* the attributes a task object spreads into an update
Spread(task) ==
  [ f \in (Attributes \cup {"id"}) \ task.missing |-> task[f] ]

newTask(taskId, title, ts, t) ==
  [ id |-> taskId, title |-> title, isCompleted |-> FALSE,
    sortOrder |-> Len(ts), createdAt |-> t, updatedAt |-> t, missing |-> {} ]

\* an add that tests the title without trimming it
addTaskUntrimmed(ts, us, newTaskTitle, taskId, t) ==
  IF Truthy(newTaskTitle)
  THEN Result(TxUpdate(ts, taskId, Spread(newTask(taskId, newTaskTitle, ts, t))),
              Append(us, [ type |-> "ADD_TASK", task |-> newTask(taskId, newTaskTitle, ts, t) ]))
  ELSE Result(ts, us)

\* taskId is the value id() returns
addTask(ts, us, newTaskTitle, taskId, t) ==
  IF Truthy(Trim(newTaskTitle))
  THEN LET task == newTask(taskId, newTaskTitle, ts, t)
       IN  Result(TxUpdate(ts, taskId, Spread(task)),
                  Append(us, [ type |-> "ADD_TASK", task |-> task ]))
  ELSE Result(ts, us)

toggleUpdate(task, t) == [ isCompleted |-> ~task.isCompleted, updatedAt |-> t ]

toggleComplete(ts, us, taskId, t) ==
  LET i == IndexOf(ts, taskId) IN
  IF i = 0 THEN Result(ts, us)
  ELSE Result(TxUpdate(ts, taskId, toggleUpdate(ts[i], t)),
              Append(us, [ type |-> "TOGGLE_COMPLETE", taskId |-> taskId,
                           wasCompleted |-> ts[i].isCompleted ]))

\* the DELETE_TASK record: the task and tasks.findIndex (0-based)
deleteAction(ts, taskId) ==
  [ type |-> "DELETE_TASK", task |-> ts[IndexOf(ts, taskId)], index |-> IndexOf(ts, taskId) - 1 ]

\* a delete that records nothing
deleteTaskUnlogged(ts, us, taskId) == Result(TxDelete(ts, taskId), us)

deleteTask(ts, us, taskId) ==
  IF IndexOf(ts, taskId) = 0 THEN Result(ts, us)
  ELSE Result(TxDelete(ts, taskId), Append(us, deleteAction(ts, taskId)))

titleUpdate(newTitle, t) == [ title |-> newTitle, updatedAt |-> t ]

\* a rename that stores a blank title as it stores any other
updateTaskTitleStoresBlank(ts, us, taskId, newTitle, t) ==
  IF IndexOf(ts, taskId) = 0 \/ newTitle = ts[IndexOf(ts, taskId)].title THEN Result(ts, us)
  ELSE Result(TxUpdate(ts, taskId, titleUpdate(newTitle, t)),
              Append(us, [ type |-> "UPDATE_TASK", taskId |-> taskId,
                           oldTitle |-> ts[IndexOf(ts, taskId)].title, newTitle |-> newTitle ]))

\* a rename that does not compare the title with the current one
updateTaskTitleUncompared(ts, us, taskId, newTitle, t) ==
  IF IndexOf(ts, taskId) = 0 THEN Result(ts, us)
  ELSE IF Truthy(Trim(newTitle))
  THEN Result(TxUpdate(ts, taskId, titleUpdate(newTitle, t)),
              Append(us, [ type |-> "UPDATE_TASK", taskId |-> taskId,
                           oldTitle |-> ts[IndexOf(ts, taskId)].title, newTitle |-> newTitle ]))
  ELSE deleteTask(ts, us, taskId)

updateTaskTitle(ts, us, taskId, newTitle, t) ==
  LET i == IndexOf(ts, taskId) IN
  IF i = 0 THEN Result(ts, us)
  ELSE IF Truthy(Trim(newTitle)) /\ newTitle # ts[i].title
  THEN Result(TxUpdate(ts, taskId, titleUpdate(newTitle, t)),
              Append(us, [ type |-> "UPDATE_TASK", taskId |-> taskId,
                           oldTitle |-> ts[i].title, newTitle |-> newTitle ]))
  ELSE IF ~Truthy(Trim(newTitle)) THEN deleteTask(ts, us, taskId)
  ELSE Result(ts, us)

\* a reorder that counts places from 1
reorderUpdateFromOne(index, t) == [ sortOrder |-> index + 1, updatedAt |-> t ]

reorderUpdate(index, t) == [ sortOrder |-> index, updatedAt |-> t ]

\* db.transact(updates): the updates of newOrder[k..] applied in order
RECURSIVE applyReorder(_, _, _, _)
applyReorder(ts, newOrder, k, t) ==
  IF k > Len(newOrder) THEN ts
  ELSE applyReorder(TxUpdate(ts, newOrder[k].id, reorderUpdate(k - 1, t)), newOrder, k + 1, t)

handleReorder(ts, us, newOrder, t) == Result(applyReorder(ts, newOrder, 1, t), us)

\* an undo of an add that deletes nothing
undoAddTaskKeeps(ts, a) == ts

undoAddTask(ts, a) == TxDelete(ts, a.task.id)

\* a restore that writes the recorded task as it is
restoreUpdateAsRecorded(task, t) == Spread(task)

\* { ...lastAction.task, updatedAt: Date.now() }
restoreUpdate(task, t) ==
  [ f \in DOMAIN Spread(task) \cup {"updatedAt"} |-> IF f = "updatedAt" THEN t ELSE task[f] ]

undoDeleteTask(ts, a, t) == TxUpdate(ts, a.task.id, restoreUpdate(a.task, t))

\* an undo of a toggle that writes the flag the toggle wrote
undoToggleCompleteAgain(ts, a, t) ==
  TxUpdate(ts, a.taskId, [ isCompleted |-> ~a.wasCompleted, updatedAt |-> t ])

undoToggleComplete(ts, a, t) ==
  TxUpdate(ts, a.taskId, [ isCompleted |-> a.wasCompleted, updatedAt |-> t ])

undoUpdateTask(ts, a, t) ==
  TxUpdate(ts, a.taskId, [ title |-> a.oldTitle, updatedAt |-> t ])

\* an undo that takes an empty log for a reason to clear the tasks
undoOrClear(ts, us, t) ==
  IF Len(us) = 0 THEN Result(<<>>, us) ELSE Result(ts, SubSeq(us, 1, Len(us) - 1))

undo(ts, us, t) ==
  IF Len(us) = 0 THEN Result(ts, us)
  ELSE LET lastAction == us[Len(us)]
           newUndoStack == SubSeq(us, 1, Len(us) - 1)
       IN  CASE lastAction.type = "ADD_TASK" ->
                  Result(undoAddTask(ts, lastAction), newUndoStack)
             [] lastAction.type = "DELETE_TASK" ->
                  Result(undoDeleteTask(ts, lastAction, t), newUndoStack)
             [] lastAction.type = "TOGGLE_COMPLETE" ->
                  Result(undoToggleComplete(ts, lastAction, t), newUndoStack)
             [] lastAction.type = "UPDATE_TASK" ->
                  Result(undoUpdateTask(ts, lastAction, t), newUndoStack)

\* ------------------------------------------------------------------ events
\* base follows one run of handlers from a state with an empty log: the tasks
\* at that state, the logged handlers since then (handler, type of the record
\* pushed, task; kept for runs of one or two handlers, <<>> for longer ones),
\* and whether the run is still pushing ("ops"), has started to undo ("undo"),
\* or is no such run ("off": a push after an undo).  After handleReorder the
\* phase is "reordered": tasks are those it started from, ops name the tasks
\* in the order it was given.
NoBase == [ tasks |-> <<>>, ops |-> <<>>, phase |-> "off" ]

BaseOnLogged(op, type, id) ==
  LET e == [ op |-> op, type |-> type, id |-> id ] IN
  IF undoStack = <<>> THEN [ tasks |-> tasks, ops |-> <<e>>, phase |-> "ops" ]
  ELSE IF base.phase = "ops"
  THEN [ base EXCEPT !.ops = IF Len(undoStack) = 1 /\ Len(@) = 1 THEN Append(@, e) ELSE <<>> ]
  ELSE NoBase

BaseOnUndo ==
  IF base.phase \in { "ops", "undo" } THEN [ base EXCEPT !.phase = "undo" ] ELSE NoBase

BaseOnReorder(newOrder) ==
  [ tasks |-> tasks,
    ops |-> [ k \in 1..Len(newOrder) |-> [ op |-> "handleReorder", type |-> "", id |-> newOrder[k].id ] ],
    phase |-> "reordered" ]

\* one more event within the explored run length
Step == steps < MaxSteps /\ steps' = steps + 1

\* Home renders the page, and with it the fields and the task rows, for a
\* user only: before that it returns the loading screen or <Auth />
SignedIn == user = "in"

\* the logged handler op, called for the task id, has left r
Pushed(r, op, id) ==
  /\ SignedIn
  /\ tasks' = r.tasks
  /\ undoStack' = r.undoStack
  /\ base' = BaseOnLogged(op, r.undoStack[Len(r.undoStack)].type, id)
  /\ UNCHANGED <<user, item, edit>>
  /\ Step

\* the ids a handler can be called with: those of the tasks, and one of no task
Ids == IdSet(tasks) \cup { UnknownId }

\* Enter in the new-task field
AddTask ==
  \E title \in Titles :
    \E r \in { addTask(tasks, undoStack, title, idCounter + 1, now) } :
      IF r = Result(tasks, undoStack) THEN UNCHANGED vars
      ELSE /\ Len(tasks) < MaxTasks /\ idCounter < MaxIds
           /\ Pushed(r, "addTask", idCounter + 1)
           /\ idCounter' = idCounter + 1
           /\ UNCHANGED now

\* Cmd+Click on an active task, click on a completed task
ToggleComplete ==
  \E taskId \in Ids :
    \E r \in { toggleComplete(tasks, undoStack, taskId, now) } :
      IF r = Result(tasks, undoStack) THEN UNCHANGED vars
      ELSE Pushed(r, "toggleComplete", taskId) /\ UNCHANGED <<now, idCounter>>

\* swipe, drag, Backspace on an empty edit field, the delete button
DeleteTask ==
  \E taskId \in Ids :
    \E r \in { deleteTask(tasks, undoStack, taskId) } :
      IF r = Result(tasks, undoStack) THEN UNCHANGED vars
      ELSE Pushed(r, "deleteTask", taskId) /\ UNCHANGED <<now, idCounter>>

\* the ids of the tasks that have an edit field (the TaskItems are the active
\* tasks), and one of no task
EditIds == { activeTasks[i].id : i \in 1..Len(activeTasks) } \cup { UnknownId }

\* blur or Enter in the edit field
UpdateTaskTitle ==
  \E taskId \in EditIds, newTitle \in Titles :
    \E r \in { updateTaskTitle(tasks, undoStack, taskId, newTitle, now) } :
      IF r = Result(tasks, undoStack) THEN UNCHANGED vars
      ELSE Pushed(r, "updateTaskTitle", taskId) /\ UNCHANGED <<now, idCounter>>

\* the orders of the elements of a set: every sequence without repetition
RECURSIVE Orders(_)
Orders(S) ==
  IF S = {} THEN { <<>> }
  ELSE UNION { { <<x>> \o o : o \in Orders(S \ {x}) } : x \in S }

\* the orders Reorder.Group can hand over: the active tasks, permuted
NewOrders(ts) ==
  LET a == activeTasksOf(ts)
  IN  { [ i \in 1..Len(a) |-> a[p[i]] ] : p \in Orders(1..Len(a)) }

\* Reorder.Group hands over the active tasks in their new order
HandleReorder ==
  /\ SignedIn
  /\ Len(activeTasks) >= 2
  /\ \E newOrder \in NewOrders(tasks) :
       \E r \in { handleReorder(tasks, undoStack, newOrder, now) } :
         /\ tasks' = r.tasks
         /\ undoStack' = r.undoStack
         /\ base' = BaseOnReorder(newOrder)
         /\ UNCHANGED <<now, idCounter, user, item, edit>>
         /\ Step

\* Cmd+Z
Undo ==
  \E r \in { undo(tasks, undoStack, now) } :
    IF r = Result(tasks, undoStack) THEN UNCHANGED vars
    ELSE /\ tasks' = r.tasks
         /\ undoStack' = r.undoStack
         /\ base' = BaseOnUndo
         /\ UNCHANGED <<now, idCounter, steps, user, item, edit>>

\* time passes between two events
Tick ==
  /\ now < MaxClock
  /\ now' = now + 1
  /\ UNCHANGED <<tasks, undoStack, idCounter, base, user, item, edit>>
  /\ Step

\* a task an earlier session added as the i-th one at clock 0 (sortOrder =
\* tasks.length at the add) and toggled or not
Earlier(i, done) ==
  [ id |-> i, title |-> <<"a">>, isCompleted |-> done, sortOrder |-> i - 1,
    createdAt |-> 0, updatedAt |-> 0, missing |-> {} ]

\* What the store holds when Home is mounted: nothing; two tasks, each one
\* active or completed; three active tasks; the last of three tasks, the
\* first two deleted since.
InitialStores ==
  { <<>> } \cup
  { [ i \in 1..2 |-> Earlier(i, done[i]) ] : done \in [1..2 -> BOOLEAN] } \cup
  { [ i \in 1..3 |-> Earlier(i, FALSE) ] } \cup
  { << Earlier(3, FALSE) >> }

\* Home is mounted and a user is signed in: useState([]) for the undo stack,
\* the query result for the tasks
Init ==
  /\ tasks \in InitialStores
  /\ undoStack = <<>>
  /\ now = 0
  /\ idCounter = (IF tasks = <<>> THEN 0 ELSE tasks[Len(tasks)].id)
  /\ steps = 0
  /\ base = [ tasks |-> tasks, ops |-> <<>>, phase |-> "ops" ]
  /\ user = "in"
  /\ item = NoItem
  /\ edit = NoEdit

Next ==
  \/ AddTask
  \/ ToggleComplete
  \/ DeleteTask
  \/ UpdateTaskTitle
  \/ HandleReorder
  \/ Undo
  \/ Tick

Spec == Init /\ [][Next]_vars

\* ------------------------------------------------------------------ authentication
\* tasks are the tasks the store holds for the account: what the query
\* delivers while nobody is signed in is not read by any handler that can run
\* then (undo reads the undo stack only).

\* db.useAuth() has found out whether a user is signed in
AuthResolved ==
  /\ user = "loading"
  /\ user' \in { "none", "in" }
  /\ UNCHANGED <<tasks, undoStack, now, idCounter, steps, base, item, edit>>

\* <Auth />: signInWithMagicCode has succeeded
SignIn ==
  /\ user = "none"
  /\ user' = "in"
  /\ UNCHANGED <<tasks, undoStack, now, idCounter, steps, base, item, edit>>

\* the Sign Out button: Home stays mounted and keeps its undo stack
SignOut ==
  /\ SignedIn
  /\ user' = "none"
  /\ UNCHANGED <<tasks, undoStack, now, idCounter, steps, base, item, edit>>

\* Home is mounted while db.useAuth() is loading
InitAuth ==
  /\ tasks \in InitialStores
  /\ undoStack = <<>>
  /\ now = 0
  /\ idCounter = (IF tasks = <<>> THEN 0 ELSE tasks[Len(tasks)].id)
  /\ steps = 0
  /\ base = NoBase
  /\ user = "loading"
  /\ item = NoItem
  /\ edit = NoEdit

NextAuth ==
  \/ AuthResolved
  \/ SignIn
  \/ SignOut
  \/ AddTask
  \/ ToggleComplete
  \/ DeleteTask
  \/ UpdateTaskTitle
  \/ HandleReorder
  \/ Undo
  \/ Tick

SpecAuth == InitAuth /\ [][NextAuth]_vars

\* ------------------------------------------------------------------ remote changes
\* every task has every attribute of the schema
Complete(ts) == \A i \in 1..Len(ts) : ts[i].missing = {}

\* db.useQuery delivers a query result in which another device or tab has
\* deleted a task; the undo stack is component state and stays
RemoteDelete ==
  \E id \in IdSet(tasks) :
    /\ tasks' = TxDelete(tasks, id)
    /\ base' = NoBase
    /\ UNCHANGED <<undoStack, now, idCounter, user, item, edit>>
    /\ Step

\* The persisted variant with remote deletes.  A task without sortOrder makes
\* the comparator of the active view return NaN, and the order of the view
\* implementation-defined: the events are followed up to such a state, not
\* past it.
NextRemote ==
  \/ Complete(tasks) /\ AddTask
  \/ Complete(tasks) /\ ToggleComplete
  \/ Complete(tasks) /\ DeleteTask
  \/ Complete(tasks) /\ UpdateTaskTitle
  \/ Complete(tasks) /\ HandleReorder
  \/ Complete(tasks) /\ Undo
  \/ Complete(tasks) /\ Tick
  \/ Complete(tasks) /\ RemoteDelete

SpecRemote == Init /\ [][NextRemote]_vars

\* ------------------------------------------------------------------ local variant: pure handlers
\* A task is { id, title, isCompleted, sortOrder }, its id the string of the
\* clock value at the add; the views are filters of the tasks array.
activeTasksLocalOf(ts) == SelectSeq(ts, LAMBDA x : ~x.isCompleted)
completedTasksLocalOf(ts) == SelectSeq(ts, LAMBDA x : x.isCompleted)

newTaskLocal(title, ts, t) ==
  [ id |-> ToString(t), title |-> title, isCompleted |-> FALSE, sortOrder |-> Len(ts) ]

addTaskLocal(ts, us, newTaskTitle, t) ==
  IF Truthy(Trim(newTaskTitle))
  THEN Result(Append(ts, newTaskLocal(newTaskTitle, ts, t)),
              Append(us, [ type |-> "ADD_TASK", task |-> newTaskLocal(newTaskTitle, ts, t) ]))
  ELSE Result(ts, us)

toggleCompleteLocal(ts, us, id) ==
  LET i == IndexOf(ts, id) IN
  IF i = 0 THEN Result(ts, us)
  ELSE Result([ k \in 1..Len(ts) |->
                  IF ts[k].id = id THEN [ ts[k] EXCEPT !.isCompleted = ~ts[k].isCompleted ]
                  ELSE ts[k] ],
              Append(us, [ type |-> "TOGGLE_COMPLETE", taskId |-> id,
                           wasCompleted |-> ts[i].isCompleted ]))

deleteTaskLocal(ts, us, id) ==
  IF IndexOf(ts, id) = 0 THEN Result(ts, us)
  ELSE Result(SelectSeq(ts, LAMBDA x : x.id # id), Append(us, deleteAction(ts, id)))

updateTaskTitleLocal(ts, us, id, newTitle) ==
  LET i == IndexOf(ts, id) IN
  IF i = 0 THEN Result(ts, us)
  ELSE IF Truthy(Trim(newTitle)) /\ newTitle # ts[i].title
  THEN Result([ k \in 1..Len(ts) |->
                  IF ts[k].id = id THEN [ ts[k] EXCEPT !.title = newTitle ] ELSE ts[k] ],
              Append(us, [ type |-> "UPDATE_TASK", taskId |-> id,
                           oldTitle |-> ts[i].title, newTitle |-> newTitle ]))
  ELSE IF ~Truthy(Trim(newTitle)) THEN deleteTaskLocal(ts, us, id)
  ELSE Result(ts, us)

handleReorderLocal(ts, us, newOrder) ==
  Result([ k \in 1..Len(newOrder) |-> [ newOrder[k] EXCEPT !.sortOrder = k - 1 ] ]
           \o completedTasksLocalOf(ts),
         us)

\* Array.prototype.splice(index, 0, x) on a copy: x goes in at index, or at the
\* end when index is past it
Splice(s, index, x) ==
  LET at == IF index > Len(s) THEN Len(s) ELSE index
  IN  SubSeq(s, 1, at) \o <<x>> \o SubSeq(s, at + 1, Len(s))

undoLocal(ts, us) ==
  IF Len(us) = 0 THEN Result(ts, us)
  ELSE LET lastAction == us[Len(us)]
           newUndoStack == SubSeq(us, 1, Len(us) - 1)
       IN  CASE lastAction.type = "ADD_TASK" ->
                  Result(SelectSeq(ts, LAMBDA x : x.id # lastAction.task.id), newUndoStack)
             [] lastAction.type = "DELETE_TASK" ->
                  Result(Splice(ts, lastAction.index, lastAction.task), newUndoStack)
             [] lastAction.type = "TOGGLE_COMPLETE" ->
                  Result([ k \in 1..Len(ts) |->
                             IF ts[k].id = lastAction.taskId
                             THEN [ ts[k] EXCEPT !.isCompleted = lastAction.wasCompleted ]
                             ELSE ts[k] ],
                         newUndoStack)
             [] lastAction.type = "UPDATE_TASK" ->
                  Result([ k \in 1..Len(ts) |->
                             IF ts[k].id = lastAction.taskId
                             THEN [ ts[k] EXCEPT !.title = lastAction.oldTitle ]
                             ELSE ts[k] ],
                         newUndoStack)

\* ------------------------------------------------------------------ local variant: events
StepLocal == steps < MaxStepsLocal /\ steps' = steps + 1

\* the handler has left r; the local variant uses neither id() nor base
DoneLocal(r) ==
  /\ tasks' = r.tasks
  /\ undoStack' = r.undoStack
  /\ UNCHANGED <<now, idCounter, base, user, item, edit>>

\* the ids a handler can be called with: those of the tasks, and one of no task
IdsLocal == IdSet(tasks) \cup { "none" }

AddTaskLocal ==
  \E title \in Titles :
    \E r \in { addTaskLocal(tasks, undoStack, title, now) } :
      IF r = Result(tasks, undoStack) THEN UNCHANGED vars
      ELSE Len(tasks) < MaxTasks /\ DoneLocal(r) /\ StepLocal

ToggleCompleteLocal ==
  \E id \in IdsLocal :
    \E r \in { toggleCompleteLocal(tasks, undoStack, id) } :
      IF r = Result(tasks, undoStack) THEN UNCHANGED vars
      ELSE DoneLocal(r) /\ StepLocal

DeleteTaskLocal ==
  \E id \in IdsLocal :
    \E r \in { deleteTaskLocal(tasks, undoStack, id) } :
      IF r = Result(tasks, undoStack) THEN UNCHANGED vars
      ELSE DoneLocal(r) /\ StepLocal

UpdateTaskTitleLocal ==
  \E id \in IdsLocal, newTitle \in Titles :
    \E r \in { updateTaskTitleLocal(tasks, undoStack, id, newTitle) } :
      IF r = Result(tasks, undoStack) THEN UNCHANGED vars
      ELSE DoneLocal(r) /\ StepLocal

NewOrdersLocal(ts) ==
  { [ i \in 1..Len(activeTasksLocalOf(ts)) |-> activeTasksLocalOf(ts)[p[i]] ] :
      p \in Orders(1..Len(activeTasksLocalOf(ts))) }

HandleReorderLocal ==
  /\ Len(activeTasksLocalOf(tasks)) >= 2
  /\ \E newOrder \in NewOrdersLocal(tasks) :
       DoneLocal(handleReorderLocal(tasks, undoStack, newOrder)) /\ StepLocal

UndoLocal ==
  \E r \in { undoLocal(tasks, undoStack) } :
    IF r = Result(tasks, undoStack) THEN UNCHANGED vars
    ELSE DoneLocal(r) /\ UNCHANGED steps

\* Home is mounted: useState([]) for the tasks and for the undo stack
InitLocal ==
  /\ tasks = <<>>
  /\ undoStack = <<>>
  /\ now = 0
  /\ idCounter = 0
  /\ steps = 0
  /\ base = NoBase
  /\ user = "in"
  /\ item = NoItem
  /\ edit = NoEdit

NextLocal ==
  \/ AddTaskLocal
  \/ ToggleCompleteLocal
  \/ DeleteTaskLocal
  \/ UpdateTaskTitleLocal
  \/ HandleReorderLocal
  \/ UndoLocal
  \/ Tick

SpecLocal == InitLocal /\ [][NextLocal]_vars

\* ------------------------------------------------------------------ baseline variant: pure handlers
\* src/unnamed/part_000: the local variant without the undo stack; its by-id
\* handlers do not look the task up first
toggleCompleteBaseline(ts, id) ==
  [ k \in 1..Len(ts) |->
      IF ts[k].id = id THEN [ ts[k] EXCEPT !.isCompleted = ~ts[k].isCompleted ] ELSE ts[k] ]

deleteTaskBaseline(ts, id) == SelectSeq(ts, LAMBDA x : x.id # id)

updateTaskTitleBaseline(ts, id, newTitle) ==
  IF Truthy(Trim(newTitle))
  THEN [ k \in 1..Len(ts) |-> IF ts[k].id = id THEN [ ts[k] EXCEPT !.title = newTitle ] ELSE ts[k] ]
  ELSE deleteTaskBaseline(ts, id)

\* ------------------------------------------------------------------ TaskItem: two-finger swipe
\* the swipe distance a timer callback deletes the task above
SwipeThreshold == 150

\* the largest offset the row is drawn at
SwipeOffsetMax == 300

\* wheel events: two swipes right, one left, and a vertical scroll
WheelEvents ==
  { [ deltaX |-> 0 - 200, deltaY |-> 0 ], [ deltaX |-> 0 - 100, deltaY |-> 0 ],
    [ deltaX |-> 100, deltaY |-> 0 ],     [ deltaX |-> 10, deltaY |-> 100 ] }

Abs(n) == IF n < 0 THEN 0 - n ELSE n

Min(a, b) == IF a < b THEN a ELSE b

\* clearTimeout(swipeTimeout.current), if the ref holds a timer: stops it when
\* it is pending, and does nothing to one that has fired
clearSwipeTimeout(it) ==
  IF it.swipeTimeout \in it.pending
  THEN [ it EXCEPT !.pending = @ \ { it.swipeTimeout },
                   !.cleared = @ \cup { it.swipeTimeout } ]
  ELSE it

\* handleWheel with the old timer left running
handleWheelKeepsTimer(it, e, timer) ==
  IF Abs(e.deltaX) > Abs(e.deltaY)
  THEN LET acc == it.swipeAccumulator - e.deltaX
           shown == IF acc > 0
                    THEN [ it EXCEPT !.swipeOffset = Min(acc, SwipeOffsetMax),
                                     !.isDraggingToDelete = TRUE ]
                    ELSE it
       IN  [ shown EXCEPT !.swipeAccumulator = acc,
                          !.swipeTimeout = timer,
                          !.pending = @ \cup { timer } ]
  ELSE it

\* handleWheel(e), setTimeout returning the id timer
handleWheel(it, e, timer) ==
  IF Abs(e.deltaX) > Abs(e.deltaY)
  THEN LET acc == it.swipeAccumulator - e.deltaX
           shown == IF acc > 0
                    THEN [ it EXCEPT !.swipeOffset = Min(acc, SwipeOffsetMax),
                                     !.isDraggingToDelete = TRUE ]
                    ELSE it
           stopped == clearSwipeTimeout(shown)
       IN  [ stopped EXCEPT !.swipeAccumulator = acc,
                            !.swipeTimeout = timer,
                            !.pending = @ \cup { timer } ]
  ELSE it

\* the cleanup of the wheel effect: the listener is removed, the timer of the
\* ref is cleared; the accumulator, the offset and the flag stay
cleanup(it) == clearSwipeTimeout(it)

\* the item after its callback of the timer has run and found the swipe short
resetSwipe(it, timer) ==
  [ it EXCEPT !.pending = @ \ { timer },
              !.swipeOffset = 0,
              !.isDraggingToDelete = FALSE,
              !.swipeAccumulator = 0 ]

\* the item after its callback has called onDelete: the accumulator is reset,
\* the task leaves the list and the item is unmounted
afterDelete(it, timer) ==
  [ cleanup([ it EXCEPT !.pending = @ \ { timer }, !.swipeAccumulator = 0 ])
      EXCEPT !.mounted = FALSE ]

\* a wheel event on the row
Wheel ==
  /\ SignedIn
  /\ item.mounted
  /\ item.swipeTimeout < MaxWheels
  /\ \E e \in WheelEvents : item' = handleWheel(item, e, item.swipeTimeout + 1)
  /\ UNCHANGED <<tasks, undoStack, now, idCounter, steps, base, user, edit>>

\* a timer of the item fires
Timeout ==
  \E timer \in item.pending :
    IF item.swipeAccumulator > SwipeThreshold
    THEN \E r \in { deleteTask(tasks, undoStack, item.id) } :
           /\ tasks' = r.tasks
           /\ undoStack' = r.undoStack
           /\ item' = IF r.tasks = tasks
                      THEN [ item EXCEPT !.pending = @ \ { timer }, !.swipeAccumulator = 0 ]
                      ELSE afterDelete(item, timer)
           /\ base' = NoBase
           /\ UNCHANGED <<now, idCounter, steps, user, edit>>
    ELSE /\ item' = resetSwipe(item, timer)
         /\ UNCHANGED <<tasks, undoStack, now, idCounter, steps, base, user, edit>>

\* Home renders again with the task still in the list (a key typed in the
\* new-task field, a new query result): deleteTask is a new function, so the
\* wheel effect is cleaned up and run again
Rerender ==
  /\ item.mounted
  /\ item' = cleanup(item)
  /\ UNCHANGED <<tasks, undoStack, now, idCounter, steps, base, user, edit>>

\* the task leaves the active list by another way (Cmd+Click, the drag to the
\* right): the item is unmounted
Unmount ==
  /\ SignedIn
  /\ item.mounted
  /\ \E r \in { toggleComplete(tasks, undoStack, item.id, now),
                deleteTask(tasks, undoStack, item.id) } :
       /\ tasks' = r.tasks
       /\ undoStack' = r.undoStack
  /\ item' = [ cleanup(item) EXCEPT !.mounted = FALSE ]
  /\ base' = NoBase
  /\ UNCHANGED <<now, idCounter, steps, user, edit>>

\* info.offset.x at the release of a pointer drag: to the left, short, at the
\* threshold, just over it, and past the constraint
DragOffsets == { 0 - 50, 100, SwipeThreshold, SwipeThreshold + 1, 400 }

\* onDragStart
DragStart ==
  /\ item.mounted
  /\ ~item.dragging
  /\ item' = [ item EXCEPT !.dragging = TRUE, !.isDraggingToDelete = TRUE ]
  /\ UNCHANGED <<tasks, undoStack, now, idCounter, steps, base, user, edit>>

\* the row after onDragEnd(_e, info), before onDelete takes effect
onDragEnd(it, offsetX) ==
  [ it EXCEPT !.dragging = FALSE, !.released = offsetX, !.isDraggingToDelete = FALSE ]

\* onDragEnd
DragEnd ==
  /\ SignedIn
  /\ item.mounted
  /\ item.dragging
  /\ \E offsetX \in DragOffsets :
       IF offsetX > SwipeThreshold
       THEN \E r \in { deleteTask(tasks, undoStack, item.id) } :
              /\ tasks' = r.tasks
              /\ undoStack' = r.undoStack
              /\ item' = IF r.tasks = tasks
                         THEN onDragEnd(item, offsetX)
                         ELSE [ cleanup(onDragEnd(item, offsetX)) EXCEPT !.mounted = FALSE ]
              /\ base' = NoBase
              /\ UNCHANGED <<now, idCounter, steps, user, edit>>
       ELSE /\ item' = onDragEnd(item, offsetX)
            /\ UNCHANGED <<tasks, undoStack, now, idCounter, steps, base, user, edit>>

\* the page with one of its TaskItems followed
InitSwipe ==
  /\ tasks \in InitialStores
  /\ undoStack = <<>>
  /\ now = 0
  /\ idCounter = (IF tasks = <<>> THEN 0 ELSE tasks[Len(tasks)].id)
  /\ steps = 0
  /\ base = NoBase
  /\ user = "in"
  /\ \E i \in 1..Len(activeTasks) : item = Mounted(activeTasks[i].id)
  /\ edit = NoEdit

NextSwipe == Wheel \/ Timeout \/ Rerender \/ Unmount \/ DragStart \/ DragEnd

\* a timer that is set and not cleared fires
SpecSwipe == InitSwipe /\ [][NextSwipe]_vars /\ WF_vars(Timeout)

\* ------------------------------------------------------------------ TaskItem: click and edit field
\* what a handler of the item leaves: the store and the log, and the edit state
Handled(r, ed) == [ store |-> r, edit |-> ed ]

\* a handleClick that looks at the item's state before the modifier
handleClickIdleFirst(ts, us, ed, it, meta, t) ==
  IF ed.editingId # it.id /\ ~it.isDraggingToDelete
  THEN Handled(Result(ts, us), [ ed EXCEPT !.editingId = it.id, !.typed = FALSE ])
  ELSE IF meta THEN Handled(toggleComplete(ts, us, it.id, t), ed)
  ELSE Handled(Result(ts, us), ed)

\* handleClick(e), meta being e.metaKey || e.ctrlKey; isEditing is
\* editingId === task.id, onToggle toggleComplete, onEdit setEditingId
handleClick(ts, us, ed, it, meta, t) ==
  IF meta THEN Handled(toggleComplete(ts, us, it.id, t), ed)
  ELSE IF ~(ed.editingId = it.id) /\ ~it.isDraggingToDelete
  THEN Handled(Result(ts, us), [ ed EXCEPT !.editingId = it.id, !.typed = FALSE ])
  ELSE Handled(Result(ts, us), ed)

\* the item after a handler has left ts: unmounted when its task is no longer
\* an active task
Rendered(it, ts) ==
  IF \E i \in 1..Len(activeTasksOf(ts)) : activeTasksOf(ts)[i].id = it.id
  THEN it
  ELSE [ cleanup(it) EXCEPT !.mounted = FALSE ]

\* a handler of the item has left h
Handle(h) ==
  /\ SignedIn
  /\ tasks' = h.store.tasks
  /\ undoStack' = h.store.undoStack
  /\ edit' = h.edit
  /\ item' = Rendered(item, h.store.tasks)
  /\ base' = NoBase
  /\ IF h.store = Result(tasks, undoStack) THEN UNCHANGED steps ELSE Step
  /\ UNCHANGED <<now, idCounter, user>>

\* a click on the row
Click ==
  /\ item.mounted
  /\ \E meta \in BOOLEAN :
       \E h \in { handleClick(tasks, undoStack, edit, item, meta, now) } : Handle(h)

\* the edit field is shown: isEditing
IsEditing == item.mounted /\ edit.editingId = item.id

\* onChange of the edit field
Change ==
  /\ IsEditing
  /\ \E value \in Titles : edit' = [ edit EXCEPT !.editValue = value, !.typed = TRUE ]
  /\ UNCHANGED <<tasks, undoStack, now, idCounter, steps, base, user, item>>

\* onBlur of the edit field, and Enter in it: onUpdate(task.id, editValue)
Commit ==
  /\ IsEditing
  /\ \E r \in { updateTaskTitle(tasks, undoStack, item.id, edit.editValue, now) } :
       Handle(Handled(r, [ edit EXCEPT !.editingId = Null ]))

\* Backspace in the edit field when it is empty: handleKeyDown(e, task.id)
Backspace ==
  /\ IsEditing
  /\ edit.editValue = <<>>
  /\ \E r \in { deleteTask(tasks, undoStack, item.id) } :
       Handle(Handled(r, [ edit EXCEPT !.editingId = Null ]))

\* the titles another session gives the task
RemoteTitles == { <<"a">>, <<"b", " ">> }

\* a new query result in which another session has renamed the task
RemoteRename ==
  /\ item.mounted
  /\ \E title \in RemoteTitles :
       /\ title # tasks[IndexOf(tasks, item.id)].title
       /\ tasks' = TxUpdate(tasks, item.id, titleUpdate(title, now))
  /\ base' = NoBase
  /\ UNCHANGED <<undoStack, now, idCounter, steps, user, item, edit>>

\* the page with one of its TaskItems followed, no task being edited
InitEdit ==
  /\ tasks \in InitialStores
  /\ undoStack = <<>>
  /\ now = 0
  /\ idCounter = (IF tasks = <<>> THEN 0 ELSE tasks[Len(tasks)].id)
  /\ steps = 0
  /\ base = NoBase
  /\ user = "in"
  /\ \E i \in 1..Len(activeTasks) :
       /\ item = Mounted(activeTasks[i].id)
       /\ edit = Editing(activeTasks[i].title)

NextEdit ==
  \/ Click
  \/ Change
  \/ Commit
  \/ Backspace
  \/ DragStart
  \/ DragEnd
  \/ Undo
  \/ RemoteRename

SpecEdit == InitEdit /\ [][NextEdit]_vars

\* ------------------------------------------------------------------ properties
View(ts) ==
  [ active |-> IdsOf(activeTasksOf(ts)), completed |-> IdsOf(completedTasksOf(ts)) ]

TaskOf(ts, id) == ts[IndexOf(ts, id)]

\* the clock values a handler called later can read
Later == now..MaxClock

\* every task but id is in both collections, with the same attributes
OthersSame(ts1, ts2, id) ==
  \A k \in (IdSet(ts1) \cup IdSet(ts2)) \ { id } :
    /\ k \in IdSet(ts1) /\ k \in IdSet(ts2)
    /\ TaskOf(ts1, k) = TaskOf(ts2, k)

\* everything pushed since the log was empty has been undone
Undone == base.phase = "undo" /\ undoStack = <<>>

\* ... and that was one call of the handler op
UndoneOne(op) == Undone /\ Len(base.ops) = 1 /\ base.ops[1].op = op

\* this step pushed an Action record of this type
PushedType(type) ==
  /\ Len(undoStack') = Len(undoStack) + 1
  /\ undoStack'[Len(undoStack')].type = type

\* this step is handleReorder: the only event other than Tick that leaves the log alone
Reordered == undoStack' = undoStack /\ now' = now /\ steps' = steps + 1

\* C1: deleteTask(id) followed immediately by undo() puts the task back at the
\* index of the view it was in, so both views have their orders of before the
\* delete.  (Stated for the deletes that start from an empty log.)
C1_DeleteUndoRestoresViews ==
  UndoneOne("deleteTask") => View(tasks) = View(base.tasks)

\* C2: from a state with an empty log, after logged handlers only, undoing
\* until the log is empty restores the collection: the same ids, the same
\* title and isCompleted for each, the same order of both views.
C2_UndoAllRestores ==
  Undone =>
    /\ IdSet(tasks) = IdSet(base.tasks)
    /\ \A id \in IdSet(tasks) \cap IdSet(base.tasks) :
         /\ TaskOf(tasks, id).title = TaskOf(base.tasks, id).title
         /\ TaskOf(tasks, id).isCompleted = TaskOf(base.tasks, id).isCompleted
    /\ View(tasks) = View(base.tasks)

\* C3: in every reachable state, for every title whose trimmed form is not
\* empty, addTask pushes one record and undo() right after it leaves the
\* collection (ids, attributes, order) and the log as they were before the add.
C3_AddUndoRestores ==
  \A title \in Titles : Truthy(Trim(title)) =>
    \A t \in Later :
      \E a \in { addTask(tasks, undoStack, title, idCounter + 1, now) } :
        /\ Len(a.undoStack) = Len(undoStack) + 1
        /\ Len(a.tasks) = Len(tasks) + 1
        /\ undo(a.tasks, a.undoStack, t) = Result(tasks, undoStack)

\* an add from a collection that is not empty has been undone
C3_Witness ==
  /\ UndoneOne("addTask")
  /\ base.tasks # <<>>
  /\ tasks = base.tasks

\* C4: for every task, toggleComplete then undo() restores isCompleted, and
\* rename to a non-empty title other than the current one then undo() restores
\* the title, no other task being changed either time; toggleComplete twice
\* pushes two records and gives isCompleted its first value again, and two
\* undos after that leave it at that value.
C4_ToggleRenameUndo ==
  \A id \in IdSet(tasks), t \in Later :
    \E old \in { TaskOf(tasks, id) } :
      /\ \E g \in { toggleComplete(tasks, undoStack, id, now) } :
           /\ TaskOf(g.tasks, id).isCompleted = ~old.isCompleted
           /\ \E u \in { undo(g.tasks, g.undoStack, t) } :
                /\ TaskOf(u.tasks, id).isCompleted = old.isCompleted
                /\ OthersSame(u.tasks, tasks, id)
           /\ \E g2 \in { toggleComplete(g.tasks, g.undoStack, id, t) } :
                /\ Len(g2.undoStack) = Len(undoStack) + 2
                /\ TaskOf(g2.tasks, id).isCompleted = old.isCompleted
                /\ \E u1 \in { undo(g2.tasks, g2.undoStack, t) } :
                     \E u2 \in { undo(u1.tasks, u1.undoStack, t) } :
                       /\ u2.undoStack = undoStack
                       /\ TaskOf(u2.tasks, id).isCompleted = old.isCompleted
      /\ \A newTitle \in Titles \ { <<>>, old.title } :
           \E r \in { updateTaskTitle(tasks, undoStack, id, newTitle, now) } :
             \E u \in { undo(r.tasks, r.undoStack, t) } :
               /\ Len(r.undoStack) = Len(undoStack) + 1
               /\ id \in IdSet(u.tasks)
               /\ TaskOf(u.tasks, id).title = old.title
               /\ OthersSame(u.tasks, tasks, id)

\* toggleComplete twice on one task and then two undos have happened
C4_Witness ==
  /\ Undone
  /\ Len(base.ops) = 2
  /\ base.ops[1].op = "toggleComplete" /\ base.ops[2].op = "toggleComplete"
  /\ base.ops[1].id = base.ops[2].id
  /\ TaskOf(tasks, base.ops[1].id).isCompleted = TaskOf(base.tasks, base.ops[1].id).isCompleted

\* C5 as claimed: after delete, toggleComplete or rename of a task and undo()
\* right after it, the task's updatedAt is what it was before the handler.
C5_UndoRestoresUpdatedAt ==
  ( /\ Undone /\ Len(base.ops) = 1
    /\ base.ops[1].op \in { "deleteTask", "toggleComplete", "updateTaskTitle" } )
  => TaskOf(tasks, base.ops[1].id).updatedAt = TaskOf(base.tasks, base.ops[1].id).updatedAt

\* the results of delete, toggleComplete and rename of the task id that pushed a record
Mutations(id) ==
  { r \in { deleteTask(tasks, undoStack, id), toggleComplete(tasks, undoStack, id, now) }
          \cup { updateTaskTitle(tasks, undoStack, id, newTitle, now) : newTitle \in Titles } :
      Len(r.undoStack) = Len(undoStack) + 1 }

\* C5 amended: after delete, toggleComplete or rename of a task and undo()
\* right after it, the task's updatedAt is the clock value undo read; its
\* other attributes and the log are what they were before the handler.
C5_UndoRefreshesUpdatedAt ==
  \A id \in IdSet(tasks), t \in Later :
    \A r \in Mutations(id) :
      \E u \in { undo(r.tasks, r.undoStack, t) } :
        /\ u.undoStack = undoStack
        /\ id \in IdSet(u.tasks)
        /\ TaskOf(u.tasks, id) = [ TaskOf(tasks, id) EXCEPT !.updatedAt = t ]

\* a handler and its undo have left the task with a later updatedAt
C5_Witness ==
  /\ Undone /\ Len(base.ops) = 1
  /\ base.ops[1].op \in { "deleteTask", "toggleComplete", "updateTaskTitle" }
  /\ TaskOf(tasks, base.ops[1].id).updatedAt = now
  /\ TaskOf(base.tasks, base.ops[1].id).updatedAt < now

\* the sortOrder values of the active tasks, in view order, are 0, 1, ..., n-1
Dense(ts) ==
  \A i \in 1..Len(activeTasksOf(ts)) : activeTasksOf(ts)[i].sortOrder = i - 1

\* C6: an add, a delete or a reorder that starts with the active sortOrder
\* values 0..n-1 in view order ends with them 0..n-1 in view order.
C6_SortOrderDense ==
  [][ ( /\ PushedType("ADD_TASK") \/ PushedType("DELETE_TASK") \/ Reordered
        /\ Dense(tasks) )
      => Dense(tasks') ]_vars

\* C7: the task addTask creates has isCompleted = false and sortOrder = the
\* number of active tasks at the call.
C7_AddSortOrderIsActiveCount ==
  [][ PushedType("ADD_TASK") =>
        \E task \in { undoStack'[Len(undoStack')].task } :
          /\ TaskOf(tasks', task.id) = task
          /\ ~task.isCompleted
          /\ task.sortOrder = Len(activeTasks) ]_vars

\* C8: a task just added is the last one of the active view.
C8_AddedTaskIsLast ==
  [][ PushedType("ADD_TASK") =>
        \E a \in { activeTasksOf(tasks') } :
          a[Len(a)].id = undoStack'[Len(undoStack')].task.id ]_vars

\* C9: in every reachable state, for every order of the active tasks,
\* handleReorder gives each active task the sortOrder of its place in that
\* order (0..n-1, so the active view is that order) and changes neither the
\* tasks there are, nor a title, nor an isCompleted, nor the sortOrder of a
\* completed task.
C9_ReorderAssignsPositions ==
  \A newOrder \in NewOrders(tasks) :
    \E r \in { handleReorder(tasks, undoStack, newOrder, now) } :
      /\ \A k \in 1..Len(newOrder) : TaskOf(r.tasks, newOrder[k].id).sortOrder = k - 1
      /\ IdsOf(activeTasksOf(r.tasks)) = IdsOf(newOrder)
      /\ IdsOf(r.tasks) = IdsOf(tasks)
      /\ \A i \in 1..Len(tasks) :
           /\ r.tasks[i].title = tasks[i].title
           /\ r.tasks[i].isCompleted = tasks[i].isCompleted
           /\ tasks[i].isCompleted => r.tasks[i].sortOrder = tasks[i].sortOrder

\* handleReorder has put the active tasks in another order, a completed task
\* being there
C9_Witness ==
  /\ base.phase = "reordered"
  /\ IdsOf(activeTasksOf(base.tasks)) # [ k \in 1..Len(base.ops) |-> base.ops[k].id ]
  /\ IdsOf(activeTasks) = [ k \in 1..Len(base.ops) |-> base.ops[k].id ]
  /\ completedTasks # <<>>

\* C10: no two tasks of the collection have the same id (so two adds at one
\* clock value give two ids).
C10_IdsUnique ==
  \A i, j \in 1..Len(tasks) : i # j => tasks[i].id # tasks[j].id

\* the tasks of the view are exactly the tasks of ts that satisfy keep, each once
ListsExactly(view, ts, keep(_)) ==
  /\ \A i \in 1..Len(view) : keep(view[i]) /\ view[i] \in { ts[k] : k \in 1..Len(ts) }
  /\ \A k \in 1..Len(ts) : keep(ts[k]) => \E i \in 1..Len(view) : view[i] = ts[k]
  /\ Len(view) = Cardinality({ k \in 1..Len(ts) : keep(ts[k]) })

\* the views of ts are the active tasks by ascending sortOrder and the
\* completed tasks by descending updatedAt
ViewsSorted(ts) ==
  /\ ListsExactly(activeTasksOf(ts), ts, LAMBDA x : ~x.isCompleted)
  /\ ListsExactly(completedTasksOf(ts), ts, LAMBDA x : x.isCompleted)
  /\ \A i, j \in 1..Len(activeTasksOf(ts)) :
       i < j => activeTasksOf(ts)[i].sortOrder <= activeTasksOf(ts)[j].sortOrder
  /\ \A i, j \in 1..Len(completedTasksOf(ts)) :
       i < j => completedTasksOf(ts)[i].updatedAt >= completedTasksOf(ts)[j].updatedAt

\* this step is a toggleComplete that completed a task
Completed ==
  /\ PushedType("TOGGLE_COMPLETE")
  /\ ~undoStack'[Len(undoStack')].wasCompleted

\* C11: the active view is the tasks with isCompleted = false by ascending
\* sortOrder, the completed view the tasks with isCompleted = true by
\* descending updatedAt, and the task a step has just completed is the first of
\* the completed view.
C11_ViewsAndMostRecentFirst ==
  [][ /\ ViewsSorted(tasks')
      /\ Completed => completedTasksOf(tasks')[1].id = undoStack'[Len(undoStack')].taskId ]_vars

\* the log r.undoStack is us with one record more
PushedOne(r, us) ==
  /\ Len(r.undoStack) = Len(us) + 1
  /\ SubSeq(r.undoStack, 1, Len(us)) = us

\* C12: in every reachable state, a successful add, delete, toggleComplete or
\* title-changing rename appends exactly one record to the undo log; a no-op
\* call and a reorder leave the log as it is; undo() of a non-empty log removes
\* its last record and appends none, and after a reorder it leaves the
\* sortOrder the reorder wrote to every task that is still there.
C12_LogLength ==
  /\ \A title \in Titles :
       \E r \in { addTask(tasks, undoStack, title, idCounter + 1, now) } :
         IF Truthy(Trim(title)) THEN PushedOne(r, undoStack) ELSE r.undoStack = undoStack
  /\ \A id \in Ids :
       /\ \E r \in { deleteTask(tasks, undoStack, id) } :
            IF id \in IdSet(tasks) THEN PushedOne(r, undoStack) ELSE r.undoStack = undoStack
       /\ \E r \in { toggleComplete(tasks, undoStack, id, now) } :
            IF id \in IdSet(tasks) THEN PushedOne(r, undoStack) ELSE r.undoStack = undoStack
       /\ \A newTitle \in Titles :
            \E r \in { updateTaskTitle(tasks, undoStack, id, newTitle, now) } :
              IF id \in IdSet(tasks) /\ newTitle # TaskOf(tasks, id).title
              THEN PushedOne(r, undoStack)
              ELSE r.undoStack = undoStack
  /\ \A newOrder \in NewOrders(tasks) :
       \E r \in { handleReorder(tasks, undoStack, newOrder, now) } :
         /\ r.undoStack = undoStack
         /\ \A t \in Later :
              \E u \in { undo(r.tasks, r.undoStack, t) } :
                \A id \in IdSet(r.tasks) \cap IdSet(u.tasks) :
                  TaskOf(u.tasks, id).sortOrder = TaskOf(r.tasks, id).sortOrder
  /\ \A t \in Later :
       \E u \in { undo(tasks, undoStack, t) } :
         IF undoStack = <<>> THEN u.undoStack = <<>>
         ELSE u.undoStack = SubSeq(undoStack, 1, Len(undoStack) - 1)

\* two records have been pushed and one of them has been undone
C12_Witness ==
  /\ base.phase = "undo"
  /\ Len(base.ops) = 2
  /\ Len(undoStack) = 1

\* the titles that are empty once trimmed
BlankTitles == { title \in Titles : ~Truthy(Trim(title)) }

\* C13: in every reachable state and for every task, updateTaskTitle with an
\* empty or whitespace-only title gives the tasks and the log that deleteTask
\* gives: the task is gone and one DELETE_TASK record with the task and its
\* index is appended.
C13_BlankRenameIsDelete ==
  \A id \in IdSet(tasks), newTitle \in BlankTitles :
    \E r \in { updateTaskTitle(tasks, undoStack, id, newTitle, now) } :
      /\ r = deleteTask(tasks, undoStack, id)
      /\ id \notin IdSet(r.tasks)
      /\ PushedOne(r, undoStack)
      /\ r.undoStack[Len(r.undoStack)] =
           [ type |-> "DELETE_TASK", task |-> TaskOf(tasks, id), index |-> IndexOf(tasks, id) - 1 ]

\* a rename to a blank title has removed a task and pushed a DELETE_TASK record
C13_Witness ==
  /\ base.phase = "ops"
  /\ Len(base.ops) = 1
  /\ base.ops[1].op = "updateTaskTitle" /\ base.ops[1].type = "DELETE_TASK"
  /\ base.ops[1].id \notin IdSet(tasks)
  /\ undoStack[1].type = "DELETE_TASK"

\* C14: in every reachable state and for every task, updateTaskTitle with the
\* task's current title, at any clock value, leaves the tasks (updatedAt
\* included) and the log as they are.
C14_SameTitleNoOp ==
  \A id \in IdSet(tasks), t \in Later :
    updateTaskTitle(tasks, undoStack, id, TaskOf(tasks, id).title, t) = Result(tasks, undoStack)

\* a rename to the current title, at a clock value later than the task's
\* updatedAt and with a record in the log, changes nothing
C14_Witness ==
  /\ undoStack # <<>>
  /\ \E id \in IdSet(tasks) :
       /\ TaskOf(tasks, id).updatedAt < now
       /\ updateTaskTitle(tasks, undoStack, id, TaskOf(tasks, id).title, now) = Result(tasks, undoStack)

\* C15: in every reachable state, addTask with an empty or whitespace-only
\* title, and toggleComplete, deleteTask and updateTaskTitle with an id of no
\* task, leave the tasks and the log as they are.
C15_ValidationNoOps ==
  /\ \A title \in BlankTitles :
       addTask(tasks, undoStack, title, idCounter + 1, now) = Result(tasks, undoStack)
  /\ toggleComplete(tasks, undoStack, UnknownId, now) = Result(tasks, undoStack)
  /\ deleteTask(tasks, undoStack, UnknownId) = Result(tasks, undoStack)
  /\ \A newTitle \in Titles :
       updateTaskTitle(tasks, undoStack, UnknownId, newTitle, now) = Result(tasks, undoStack)
  \* the handlers of the local and of the baseline variant, on the same tasks
  /\ \A title \in BlankTitles :
       addTaskLocal(tasks, undoStack, title, now) = Result(tasks, undoStack)
  /\ toggleCompleteLocal(tasks, undoStack, UnknownId) = Result(tasks, undoStack)
  /\ deleteTaskLocal(tasks, undoStack, UnknownId) = Result(tasks, undoStack)
  /\ toggleCompleteBaseline(tasks, UnknownId) = tasks
  /\ deleteTaskBaseline(tasks, UnknownId) = tasks
  /\ \A newTitle \in Titles :
       /\ updateTaskTitleLocal(tasks, undoStack, UnknownId, newTitle) = Result(tasks, undoStack)
       /\ updateTaskTitleBaseline(tasks, UnknownId, newTitle) = tasks

\* with tasks and records there, an add of a whitespace-only title and a
\* delete of an unknown id change nothing
C15_Witness ==
  /\ tasks # <<>> /\ undoStack # <<>>
  /\ addTask(tasks, undoStack, <<" ">>, idCounter + 1, now) = Result(tasks, undoStack)
  /\ deleteTask(tasks, undoStack, UnknownId) = Result(tasks, undoStack)

\* C16: in every reachable state with an empty log, undo() leaves the tasks
\* and the log as they are (the undo of the local variant as well).
C16_UndoOfEmptyLog ==
  undoStack = <<>> =>
    /\ \A t \in Later : undo(tasks, undoStack, t) = Result(tasks, undoStack)
    /\ undoLocal(tasks, undoStack) = Result(tasks, undoStack)

\* the log has been emptied by undo, tasks are there, and one more undo
\* changes nothing
C16_Witness ==
  /\ Undone
  /\ tasks # <<>>
  /\ undo(tasks, undoStack, now) = Result(tasks, undoStack)

\* the last record of the log is a toggle or rename record of a task that is
\* not in the collection
DanglingRecord ==
  /\ undoStack # <<>>
  /\ undoStack[Len(undoStack)].type \in { "TOGGLE_COMPLETE", "UPDATE_TASK" }
  /\ undoStack[Len(undoStack)].taskId \notin IdSet(tasks)

\* C17: in every reachable state, remote deletes included, every task has a
\* title whose trimmed form is not empty, and undo() of a toggle or rename
\* record of a task that is no longer there leaves the tasks as they are.
C17_TitlesNeverBlank ==
  /\ \A i \in 1..Len(tasks) :
       "title" \notin tasks[i].missing /\ Truthy(Trim(tasks[i].title))
  /\ DanglingRecord => undo(tasks, undoStack, now).tasks = tasks

\* C18: while no user is signed in (none, or loading), no step changes the
\* undo log or writes to the store.
C18_NothingWithoutUser ==
  [][ ~SignedIn => undoStack' = undoStack /\ tasks' = tasks ]_vars

\* a swipe is open: the accumulator of the mounted item is not zero
SwipeOpen == item.mounted /\ item.swipeAccumulator # 0

\* C19: every swipe that has accumulated is resolved in the end: compared with
\* the threshold by a timer callback, which resets the accumulator to zero (or
\* the item has left the page).
C19_SwipeResolved == SwipeOpen ~> ~SwipeOpen

\* C20: at most one timer of an item is pending, and it is the one the ref
\* holds; no timer of an unmounted item is pending, so none fires after the
\* unmount.
C20_OneTimer ==
  /\ Cardinality(item.pending) <= 1
  /\ item.pending \subseteq { item.swipeTimeout }
  /\ ~item.mounted => item.pending = {}

\* a wheel event has replaced a pending timer, and the unmount has then
\* cleared the one that replaced it
C20_Witness ==
  /\ ~item.mounted
  /\ Cardinality(item.cleared) >= 2
  /\ item.swipeTimeout \in item.cleared

\* a timer callback of the item runs in this step
Fired ==
  /\ item.pending # {}
  /\ item'.pending = {}
  /\ item'.cleared = item.cleared
  /\ item'.swipeTimeout = item.swipeTimeout

\* a pointer drag of the item is released in this step
Released == item.dragging /\ ~item'.dragging

\* this step deletes the task of the item and logs the delete
DeleteIntent ==
  /\ IndexOf(tasks, item.id) # 0
  /\ IndexOf(tasks', item.id) = 0
  /\ Len(undoStack') = Len(undoStack) + 1
  /\ undoStack'[Len(undoStack')].type = "DELETE_TASK"
  /\ undoStack'[Len(undoStack')].task.id = item.id

NoMutation == tasks' = tasks /\ undoStack' = undoStack

\* a callback or a release deletes the task exactly when the distance is over
\* the threshold, and mutates nothing otherwise
DeleteExactlyOverThreshold ==
  /\ Fired => IF item.swipeAccumulator > SwipeThreshold THEN DeleteIntent ELSE NoMutation
  /\ Released => IF item'.released > SwipeThreshold THEN DeleteIntent ELSE NoMutation

\* a short swipe's callback brings the offset back to 0
ShortSwipeSnapsBack ==
  Fired /\ item.swipeAccumulator <= SwipeThreshold => item'.swipeOffset = 0

\* after a short release, with no swipe timer left to run, the offset is 0
ShortDragSnapsBack ==
  Released /\ item'.released <= SwipeThreshold /\ item.pending = {} => item'.swipeOffset = 0

C21_Threshold == [][DeleteExactlyOverThreshold /\ ShortSwipeSnapsBack]_vars

C21_OffsetInRange == item.swipeOffset \in 0..SwipeOffsetMax

\* C21: a release of a pointer drag and a resolution of a swipe delete the task
\* exactly when the distance is over 150; otherwise nothing is mutated and the
\* offset the row is drawn at is 0 again; swipeOffset is always in 0..300.
C21_DeleteIntentAtThreshold ==
  [][ /\ DeleteExactlyOverThreshold
      /\ ShortSwipeSnapsBack
      /\ ShortDragSnapsBack
      /\ C21_OffsetInRange' ]_vars

\* C22: a click with the modifier always toggles the task of the item and
\* leaves editingId alone, whatever the item's state; a click without it
\* mutates nothing, and sets editingId to the task exactly when the item is
\* neither editing nor isDraggingToDelete.
C22_ModifierClickToggles ==
  item.mounted =>
    LET m == handleClick(tasks, undoStack, edit, item, TRUE, now)
        p == handleClick(tasks, undoStack, edit, item, FALSE, now)
        idle == edit.editingId # item.id /\ ~item.isDraggingToDelete
    IN  /\ m.edit.editingId = edit.editingId
        /\ Len(m.store.undoStack) = Len(undoStack) + 1
        /\ m.store.undoStack[Len(m.store.undoStack)].type = "TOGGLE_COMPLETE"
        /\ m.store.undoStack[Len(m.store.undoStack)].taskId = item.id
        /\ TaskOf(m.store.tasks, item.id).isCompleted = ~TaskOf(tasks, item.id).isCompleted
        /\ p.store = Result(tasks, undoStack)
        /\ p.edit.editingId = (IF idle THEN item.id ELSE edit.editingId)

\* a click with the modifier has completed the task while its field was open
\* and the row was being dragged: the item is gone, editingId is still the task
C22_Witness ==
  /\ ~item.mounted
  /\ item.isDraggingToDelete
  /\ edit.editingId = item.id
  /\ IndexOf(tasks, item.id) # 0
  /\ TaskOf(tasks, item.id).isCompleted

\* the edit field of the item is closed in this step
FieldClosed == IsEditing /\ edit'.editingId = Null

\* the edit field of the item is opened in this step
FieldOpened == item.mounted /\ edit.editingId # item.id /\ edit'.editingId = item.id

\* closing the field without having typed in it leaves the title and the log
UntouchedFieldChangesNothing ==
  FieldClosed /\ ~edit.typed =>
    /\ undoStack' = undoStack
    /\ IndexOf(tasks', item.id) # 0
    /\ TaskOf(tasks', item.id).title = TaskOf(tasks, item.id).title

\* C23: the edit field opens with the task's current title as its value, and
\* closing it (blur or Enter) without having typed in it leaves the task's
\* title as it is and pushes no undo entry.
C23_UntouchedFieldChangesNothing ==
  [][ /\ FieldOpened => edit'.editValue = TaskOf(tasks', item.id).title
      /\ UntouchedFieldChangesNothing ]_vars
====
